---- MODULE Spec2Model ----
(***************************************************************************)
(* Model of the redirect-resolving command router of the Redis cluster     *)
(* demo: RedirectClusterClient (redis-cluster-demo/src/redirect_client.py).*)
(*                                                                         *)
(* A call of _execute_command is a small state machine per caller: it      *)
(* picks a node round-robin, sends the command, and on a failure follows   *)
(* the except clause that catches it.  Node replies are inputs, chosen     *)
(* nondeterministically per node contact.  Every node contact is recorded  *)
(* in a per-call history (trace) so that the properties can speak about    *)
(* the number and the order of the contacts.                               *)
(***************************************************************************)
EXTENDS Integers, Sequences, FiniteSets, TLC

(* ------------------------------ bounds -------------------------------- *)

\* largest max_redirects argument a call is started with
MaxRedirects == 2

\* calls are started only while current_client_index is below this cap
MaxIndex == 3

\* the number of processes running locking_demo.py
MaxProcs == 2

(* --------------------------- configuration ---------------------------- *)

\* self.nodes: node name -> external port, in dict (insertion) order
NodeOrder == <<"node1", "node2", "node3">>

NodeNames == {NodeOrder[i] : i \in 1..Len(NodeOrder)}

nodes == [n \in NodeNames |->
            CASE n = "node1" -> 7001
              [] n = "node2" -> 7002
              [] OTHER       -> 7003]

\* self.container_to_port: cluster-internal name -> external port
ContainerNames == {"redis-node-1", "redis-node-2", "redis-node-3"}

container_to_port == [a \in ContainerNames |->
            CASE a = "redis-node-1" -> 7001
              [] a = "redis-node-2" -> 7002
              [] OTHER              -> 7003]

\* the value Python's None is modelled by
None == "None"

(* ------------------------- errors and messages ------------------------ *)

\* An error text is a sequence of whitespace-separated tokens.
Word(s) == [t |-> "word", s |-> s, n |-> 0]

Num(k) == [t |-> "int", s |-> "", n |-> k]

Addr(name, port) == [t |-> "addr", s |-> name, n |-> port]

\* words of the input alphabet that contain a digit / a colon
DigitWords == {"line:1"}

ColonWords == {"line:1"}

HasDigit(tok) == tok.t \in {"int", "addr"} \/ tok.s \in DigitWords

HasColon(tok) == tok.t = "addr" \/ tok.s \in ColonWords

\* an exception object: its class and str(e)
Error(cls, msg) == [cls |-> cls, msg |-> msg]

\* redis.exceptions: MovedError derives from AskError, AskError from
\* ResponseError; ConnectionError is an unrelated Exception.  A
\* KeyboardInterrupt derives from BaseException only.
Bases(cls) ==
    CASE cls = "MovedError"      -> {"MovedError", "AskError", "ResponseError", "Exception"}
      [] cls = "AskError"        -> {"AskError", "ResponseError", "Exception"}
      [] cls = "ResponseError"   -> {"ResponseError", "Exception"}
      [] cls = "ConnectionError" -> {"ConnectionError", "Exception"}
      [] cls = "KeyboardInterrupt" -> {"KeyboardInterrupt", "BaseException"}
      [] OTHER                   -> {"Exception"}

IsInstance(e, cls) == cls \in Bases(e.cls)

(* ------------------------------ state --------------------------------- *)

\* the callers that may invoke the client
Callers == {"c1", "c2"}

VARIABLES
    clients,               \* self.clients: the connected nodes, in dict order
    current_client_index,  \* self.current_client_index
    pc,                    \* per caller: position inside _execute_command
    max_redirects,         \* per caller: the max_redirects argument
    attempt,               \* per caller: the loop variable
    client,                \* per caller: the node picked by _get_any_client
    loaded,                \* per caller: index value read by the += of line 79
    err,                   \* per caller: the exception e being handled
    target,                \* per caller: target_client of the redirect
    reply,                 \* per caller: what the last contacted node answered
    outcome,               \* per caller: what the call returned or raised
    trace,                 \* per caller: history of the call's node contacts
    picks,                 \* history of the nodes _get_any_client returned
    ctor,                  \* the constructor: position in _connect_nodes
    batch,                 \* set_many: position, output and history
    simple,                \* a call of SimpleClusterClient.set
    official,              \* a call of ClusterAwareRedisClient.execute_with_redirect
    locking                \* locking_demo.py: the lock key and the processes

vars == <<clients, current_client_index, pc, max_redirects, attempt, client,
          loaded, err, target, reply, outcome, trace, picks, ctor, batch,
          simple, official, locking>>

\* the state of the other operations, which _execute_command leaves alone
others == <<ctor, batch, simple, official, locking>>

NoError == Error(None, <<>>)

NoOutcome == [kind |-> None, val |-> None, err |-> NoError]

Returned(v) == [kind |-> "return", val |-> v, err |-> NoError]

Raised(e) == [kind |-> "raise", val |-> None, err |-> e]

(* ------------------------- redirect resolution ------------------------ *)

IsMarker(tok) == tok.t = "word" /\ tok.s \in {"MOVED", "ASK"}

\* error_msg.replace('MOVED ', '').replace('ASK ', '').strip().split():
\* a marker word followed by a space disappears, a trailing one stays
RECURSIVE StripMarkers(_)
StripMarkers(msg) ==
    IF Len(msg) <= 1 THEN msg
    ELSE IF IsMarker(Head(msg)) THEN StripMarkers(Tail(msg))
         ELSE <<Head(msg)>> \o StripMarkers(Tail(msg))

\* target_address.rsplit(':', 1)[0]
ContainerNameOf(tok) == IF tok.t = "addr" THEN tok.s ELSE "line"

\* _parse_redirect: the external port of the redirect target, 0 for None
ParseRedirect(msg) ==
    LET parts == StripMarkers(msg) IN
    IF Len(parts) < 2 THEN 0
    ELSE IF parts[1].t # "int" THEN 0          \* int(parts[0]) raises
    ELSE IF ~HasColon(parts[2]) THEN 0
    ELSE IF ContainerNameOf(parts[2]) \in DOMAIN container_to_port
         THEN container_to_port[ContainerNameOf(parts[2])]
         ELSE 0

Connected(cl) == {cl[i] : i \in 1..Len(cl)}

\* _get_client_by_port: the connected client of the node with that port
GetClientByPort(cl, port) ==
    IF \E n \in NodeNames : nodes[n] = port
    THEN LET n == CHOOSE m \in NodeNames : nodes[m] = port
         IN IF n \in Connected(cl) THEN n ELSE None
    ELSE None

\* target_port = _parse_redirect(msg); target_client = _get_client_by_port(..)
ResolveTarget(cl, msg) ==
    IF ParseRedirect(msg) = 0 THEN None
    ELSE GetClientByPort(cl, ParseRedirect(msg))

\* line 168: any(char.isdigit() for char in error_msg) and ':' in error_msg
LooksLikeRedirect(msg) ==
    /\ \E i \in 1..Len(msg) : HasDigit(msg[i])
    /\ \E i \in 1..Len(msg) : HasColon(msg[i])

(* ---------------------------- node replies ---------------------------- *)

\* values a node may reply with
Values == {"v1", "v2"}

\* identifiers a redirect may name; redis-node-9 has no alias entry
AliasInputs == {"redis-node-2", "redis-node-3", "redis-node-9"}

\* str(e) of a redirect error raised by the library: "<slot> <name>:<port>"
RedirectText(a) == <<Num(12345), Addr(a, 6379)>>

MovedErrors == {Error("MovedError", RedirectText(a)) : a \in AliasInputs}

AskErrors ==
    {Error("AskError", RedirectText(a)) : a \in {"redis-node-2", "redis-node-9"}}

\* ResponseErrors that carry a redirect without being a redirect class
UnlabeledRedirects ==
    {Error("ResponseError", <<Word("MOVED")>> \o RedirectText(a)) :
        a \in {"redis-node-3", "redis-node-9"}}

\* ResponseErrors that are command errors; the second holds a digit and a colon
CommandErrors ==
    {Error("ResponseError", <<Word("WRONGTYPE")>>),
     Error("ResponseError", <<Word("ERR"), Word("line:1")>>)}

\* connection refused / timeout
TransportErrors == {Error("ConnectionError", <<Word("refused")>>)}

\* the caller's interrupt, raised inside a node contact
Interrupts == {Error("KeyboardInterrupt", <<>>)}

AllErrors == MovedErrors \cup AskErrors \cup UnlabeledRedirects
                \cup CommandErrors \cup TransportErrors

Ok(v) == [ok |-> TRUE, val |-> v, err |-> NoError]

Fail(e) == [ok |-> FALSE, val |-> None, err |-> e]

NoReply == [ok |-> FALSE, val |-> None, err |-> NoError]

\* what a node may answer to the command
CmdReplies == {Ok(v) : v \in Values} \cup {Fail(e) : e \in AllErrors}

\* what a node may answer to ASKING
AskingReplies == {Ok("OK")} \cup {Fail(e) : e \in TransportErrors}

\* raise Exception(f"... {max_redirects} ...") after the loop
GenericFailure == Error("Exception", <<Word("exhausted")>>)

\* the kind of answer a node gave (an observation of the input, for the history)
Signal(r) ==
    IF r.ok THEN "ok"
    ELSE IF r.err \in MovedErrors THEN "MOVED"
    ELSE IF r.err \in AskErrors THEN "ASK"
    ELSE IF r.err \in UnlabeledRedirects THEN "HEUR"
    ELSE IF r.err \in CommandErrors THEN "CMDERR"
    ELSE IF r.err \in Interrupts THEN "CANCEL"
    ELSE "TRANSPORT"

\* one node contact of a call: the node, the operation sent, how the node was
\* chosen, the loop iteration, the kind of answer and, for a redirect, the
\* connected node its target resolves to
Contact(n, op, via, att, r, cl) ==
    [node |-> n, op |-> op, via |-> via, att |-> att, sig |-> Signal(r),
     to |-> IF Signal(r) \in {"MOVED", "ASK", "HEUR"}
            THEN ResolveTarget(cl, r.err.msg) ELSE None]

(* ------------------------- _execute_command --------------------------- *)

\* line 134: except (MovedError, AskError)
IsRedirectError(e) == IsInstance(e, "MovedError") \/ IsInstance(e, "AskError")

\* line 146: isinstance(e, AskError)
NeedsAsking(e) == IsInstance(e, "AskError")

\* lines 132, 151, 178: the value the call returns for a reply
Result_Truthy(r) == "v1"

Result_Dropped(r) == None

Result(r) == r.val

\* the call ends: it returns or raises
Finish(c, out) ==
    /\ pc' = [pc EXCEPT ![c] = "done"]
    /\ outcome' = [outcome EXCEPT ![c] = out]
    /\ UNCHANGED <<attempt, err, target>>

\* the for loop takes its next value, or is exhausted (line 192)
NextIteration_SharedCounter(c) ==
    IF attempt[c] + 1 < max_redirects[c]
    THEN /\ pc' = [pc EXCEPT ![c] = "pick"]
         /\ attempt' = [d \in Callers |-> attempt[c] + 1]
         /\ err' = [err EXCEPT ![c] = NoError]
         /\ target' = [target EXCEPT ![c] = None]
         /\ UNCHANGED outcome
    ELSE /\ pc' = [pc EXCEPT ![c] = "done"]
         /\ outcome' = [outcome EXCEPT ![c] = Raised(GenericFailure)]
         /\ UNCHANGED <<attempt, err, target>>

NextIteration_NoCount(c) ==
    /\ pc' = [pc EXCEPT ![c] = "pick"]
    /\ err' = [err EXCEPT ![c] = NoError]
    /\ target' = [target EXCEPT ![c] = None]
    /\ UNCHANGED <<attempt, outcome>>

NextIteration(c) ==
    IF attempt[c] + 1 < max_redirects[c]
    THEN /\ pc' = [pc EXCEPT ![c] = "pick"]
         /\ attempt' = [attempt EXCEPT ![c] = attempt[c] + 1]
         /\ err' = [err EXCEPT ![c] = NoError]
         /\ target' = [target EXCEPT ![c] = None]
         /\ UNCHANGED outcome
    ELSE Finish(c, Raised(GenericFailure))

\* "if attempt == max_redirects - 1: raise x", else the iteration ends
RaiseIfLast_Swallow(c, x) == NextIteration(c)

RaiseIfLast(c, x) ==
    IF attempt[c] = max_redirects[c] - 1
    THEN Finish(c, Raised(x))
    ELSE NextIteration(c)

\* the handler goes on to contact the redirect target
Goto(c, p, e, t) ==
    /\ pc' = [pc EXCEPT ![c] = p]
    /\ err' = [err EXCEPT ![c] = e]
    /\ target' = [target EXCEPT ![c] = t]
    /\ UNCHANGED <<attempt, outcome>>

\* lines 134-163: except (MovedError, AskError), up to the next node contact
OnRedirectError(c, e) ==
    LET t == ResolveTarget(clients, e.msg) IN
    IF t # None
    THEN Goto(c, IF NeedsAsking(e) THEN "asking" ELSE "retry", e, t)
    ELSE RaiseIfLast(c, e)

\* lines 165-185: except ResponseError, up to the next node contact
OnResponseError_Retrying(c, e) == RaiseIfLast(c, e)

OnResponseError(c, e) ==
    LET t == ResolveTarget(clients, e.msg) IN
    IF LooksLikeRedirect(e.msg) /\ t # None
    THEN Goto(c, "retry", e, t)
    ELSE Finish(c, Raised(e))

\* lines 153, 179, 187: what "except Exception" catches
CaughtByExcept_Bare(e) == TRUE

CaughtByExcept(e) == IsInstance(e, "Exception")

\* lines 187-190: except Exception
OnOtherError(c, e) == RaiseIfLast(c, e)

\* lines 153-163 and 179-185: the command failed with x on the redirect target
OnRetryError(c, x) ==
    IF attempt[c] = max_redirects[c] - 1 THEN Finish(c, Raised(x))
    ELSE IF IsRedirectError(err[c]) THEN RaiseIfLast(c, err[c])
    ELSE Finish(c, Raised(err[c]))

\* lines 153-163: ASKING failed with x on the redirect target
OnAskingError(c, x) ==
    IF attempt[c] = max_redirects[c] - 1 THEN Finish(c, Raised(x))
    ELSE RaiseIfLast(c, err[c])

\* a caller invokes _execute_command(command_func, m)
Begin(c, m) ==
    /\ pc[c] \in {"idle", "done"}
    /\ current_client_index < MaxIndex
    /\ max_redirects' = [max_redirects EXCEPT ![c] = m]
    /\ attempt' = [attempt EXCEPT ![c] = 0]
    /\ err' = [err EXCEPT ![c] = NoError]
    /\ target' = [target EXCEPT ![c] = None]
    /\ client' = [client EXCEPT ![c] = None]
    /\ reply' = [reply EXCEPT ![c] = NoReply]
    /\ trace' = [trace EXCEPT ![c] = <<>>]
    /\ IF m > 0
       THEN /\ pc' = [pc EXCEPT ![c] = "pick"]
            /\ outcome' = [outcome EXCEPT ![c] = NoOutcome]
       ELSE /\ pc' = [pc EXCEPT ![c] = "done"]
            /\ outcome' = [outcome EXCEPT ![c] = Raised(GenericFailure)]
    /\ UNCHANGED <<clients, current_client_index, loaded, picks, others>>

\* client_list[self.current_client_index % len(client_list)]
PickedClient_First(cl, idx) == cl[1]

PickedClient(cl, idx) == cl[(idx % Len(cl)) + 1]

\* _get_any_client, lines 77-78: choose the client at the current index
PickRead(c) ==
    /\ pc[c] = "pick"
    /\ client' = [client EXCEPT ![c] = PickedClient(clients, current_client_index)]
    /\ picks' = Append(picks, PickedClient(clients, current_client_index))
    /\ pc' = [pc EXCEPT ![c] = "incr_load"]
    /\ reply' = [reply EXCEPT ![c] = NoReply]
    /\ UNCHANGED <<clients, current_client_index, max_redirects, attempt,
                   loaded, err, target, outcome, trace, others>>

\* _get_any_client, line 79: the += reads the counter ...
IncrLoad(c) ==
    /\ pc[c] = "incr_load"
    /\ loaded' = [loaded EXCEPT ![c] = current_client_index]
    /\ pc' = [pc EXCEPT ![c] = "incr_store"]
    /\ UNCHANGED <<clients, current_client_index, max_redirects, attempt,
                   client, err, target, reply, outcome, trace, picks, others>>

\* ... and stores the read value plus one
IncrStore(c) ==
    /\ pc[c] = "incr_store"
    /\ current_client_index' = loaded[c] + 1
    /\ pc' = [pc EXCEPT ![c] = "send"]
    /\ UNCHANGED <<clients, max_redirects, attempt, client, loaded, err,
                   target, reply, outcome, trace, picks, others>>

\* line 132: command_func(client) on the picked node, and the except clause
\* its failure ends in, up to the next node contact
Send(c, r) ==
    /\ pc[c] = "send"
    /\ reply' = [reply EXCEPT ![c] = r]
    /\ trace' = [trace EXCEPT ![c] =
            Append(@, Contact(client[c], "cmd", "pick", attempt[c], r, clients))]
    /\ IF r.ok THEN Finish(c, Returned(Result(r)))
       ELSE IF IsRedirectError(r.err) THEN OnRedirectError(c, r.err)
       ELSE IF IsInstance(r.err, "ResponseError") THEN OnResponseError(c, r.err)
       ELSE IF CaughtByExcept(r.err) THEN OnOtherError(c, r.err)
       ELSE Finish(c, Raised(r.err))
    /\ UNCHANGED <<clients, current_client_index, max_redirects, client, loaded,
                   picks, others>>

\* line 147: target_client.execute_command('ASKING')
Asking(c, r) ==
    /\ pc[c] = "asking"
    /\ reply' = [reply EXCEPT ![c] = r]
    /\ trace' = [trace EXCEPT ![c] =
            Append(@, Contact(target[c], "ASKING", "redirect", attempt[c], r, clients))]
    /\ IF r.ok THEN Goto(c, "retry", err[c], target[c])
       ELSE IF CaughtByExcept(r.err) THEN OnAskingError(c, r.err)
       ELSE Finish(c, Raised(r.err))
    /\ UNCHANGED <<clients, current_client_index, max_redirects, client, loaded,
                   picks, others>>

\* lines 149 / 176: command_func(target_client), and what follows its failure
Retry(c, r) ==
    /\ pc[c] = "retry"
    /\ reply' = [reply EXCEPT ![c] = r]
    /\ trace' = [trace EXCEPT ![c] =
            Append(@, Contact(target[c], "cmd", "redirect", attempt[c], r, clients))]
    /\ IF r.ok THEN Finish(c, Returned(Result(r)))
       ELSE IF CaughtByExcept(r.err) THEN OnRetryError(c, r.err)
       ELSE Finish(c, Raised(r.err))
    /\ UNCHANGED <<clients, current_client_index, max_redirects, client, loaded,
                   picks, others>>

(* --------------------------- specifications --------------------------- *)

\* the outcomes of _connect_nodes: any non-empty set of nodes connected,
\* kept in the order of self.nodes
ConnectOutcomes ==
    {<<"node1", "node2", "node3">>, <<"node1", "node2">>, <<"node1", "node3">>,
     <<"node2", "node3">>, <<"node1">>, <<"node2">>, <<"node3">>}

\* the constructor has returned: every node was tried, `up` are the nodes
\* that answered the ping
Constructed(cl) ==
    [cls |-> "RedirectClusterClient", pc |-> "ready", i |-> Len(NodeOrder),
     up |-> Connected(cl), err |-> NoError]

\* no batch, no call of the other client classes is under way
NoBatch == [pc |-> "idle", keys |-> <<>>, i |-> 0, calls |-> <<>>,
            printed |-> <<>>, ret |-> None]

NoSimple == [pc |-> "idle", trace |-> <<>>, msg |-> <<>>, target |-> None,
             outcome |-> NoOutcome]

NoOfficial == [pc |-> "idle", connections |-> <<>>, i |-> 0, trace |-> <<>>,
               target |-> None, last_error |-> NoError, outcome |-> NoOutcome]

\* the lock key of locking_demo.py does not exist
NoKey == [val |-> None, ttl |-> 0]

\* no process of locking_demo.py has been started
NoLocking == [key |-> NoKey, pc |-> <<>>, timer |-> <<>>, lost |-> <<>>,
              raising |-> <<>>, set_result |-> <<>>]

Init ==
    /\ clients \in ConnectOutcomes
    /\ current_client_index = 0
    /\ pc = [c \in Callers |-> "idle"]
    /\ max_redirects = [c \in Callers |-> 0]
    /\ attempt = [c \in Callers |-> 0]
    /\ client = [c \in Callers |-> None]
    /\ loaded = [c \in Callers |-> 0]
    /\ err = [c \in Callers |-> NoError]
    /\ target = [c \in Callers |-> None]
    /\ reply = [c \in Callers |-> NoReply]
    /\ outcome = [c \in Callers |-> NoOutcome]
    /\ trace = [c \in Callers |-> <<>>]
    /\ picks = <<>>
    /\ ctor = Constructed(clients)
    /\ batch = NoBatch
    /\ simple = NoSimple
    /\ official = NoOfficial
    /\ locking = NoLocking

\* one caller: calls run one after the other
Next ==
    \/ \E m \in 0..MaxRedirects : Begin("c1", m)
    \/ PickRead("c1")
    \/ IncrLoad("c1")
    \/ IncrStore("c1")
    \/ \E r \in CmdReplies : Send("c1", r)
    \/ \E r \in AskingReplies : Asking("c1", r)
    \/ \E r \in CmdReplies : Retry("c1", r)

Spec == Init /\ [][Next]_vars

\* several callers share the client, each making one call; node answers are
\* drawn from a smaller set
ConcCmdReplies ==
    {Ok("v1"),
     Fail(Error("ConnectionError", <<Word("refused")>>)),
     Fail(Error("MovedError", RedirectText("redis-node-2")))}

\* the max_redirects arguments of the concurrent calls
ConcBudgets == {1, 2}

BeginOnce(c, m) == pc[c] = "idle" /\ Begin(c, m)

NextConc ==
    \E c \in Callers :
        \/ \E m \in ConcBudgets : BeginOnce(c, m)
        \/ PickRead(c)
        \/ IncrLoad(c)
        \/ IncrStore(c)
        \/ \E r \in ConcCmdReplies : Send(c, r)
        \/ \E r \in AskingReplies : Asking(c, r)
        \/ \E r \in ConcCmdReplies : Retry(c, r)

SpecConc == Init /\ [][NextConc]_vars

(* ------------------------------ properties ---------------------------- *)

Last(tr) == tr[Len(tr)]

\* the positions of the command attempts in a history
CmdAttempts(tr) == {i \in 1..Len(tr) : tr[i].op = "cmd"}

\* C1: when the first picked node answers MOVED with a resolvable target and
\* the target accepts the command, the call made exactly two node contacts,
\* the second one the command on the resolved node, still in the first loop
\* iteration, and it returns the target's reply.
C1_MovedTwoContacts ==
    \A c \in Callers :
        LET tr == trace[c] IN
        (/\ Len(tr) >= 2
         /\ tr[1].sig = "MOVED" /\ tr[1].to # None
         /\ Last(tr).op = "cmd" /\ Last(tr).via = "redirect"
         /\ Last(tr).att = 0 /\ Last(tr).sig = "ok")
        => /\ Len(tr) = 2
           /\ tr[2].node = tr[1].to
           /\ attempt[c] = 0
           /\ outcome[c] = Returned(reply[c].val)

\* C2: a redirect whose target cannot be resolved ends the call at once with
\* an error; no node is contacted after it.
C2_UnresolvedTerminal ==
    \A c \in Callers :
        \A i \in 1..Len(trace[c]) :
            (trace[c][i].sig \in {"MOVED", "ASK", "HEUR"} /\ trace[c][i].to = None)
            => /\ i = Len(trace[c])
               /\ pc[c] = "done"
               /\ outcome[c].kind = "raise"

\* C3: a call with budget N whose every command is answered by a resolvable
\* MOVED makes 1 + N command attempts and then fails.
C3_BudgetAttempts ==
    \A c \in Callers :
        LET tr == trace[c] IN
        (/\ pc[c] = "done" /\ Len(tr) >= 1
         /\ \A i \in 1..Len(tr) :
               IF tr[i].op = "cmd"
               THEN tr[i].sig = "MOVED" /\ tr[i].to # None
               ELSE tr[i].sig = "ok")
        => /\ outcome[c].kind = "raise"
           /\ Cardinality(CmdAttempts(tr)) = 1 + max_redirects[c]

\* C4: after every ASK answer with a resolvable target, be it the answer of
\* a picked node or of a redirect target with loop iterations left, the next
\* contact is the ASKING on the target; the command is sent to that target
\* only after the ASKING was accepted, directly after it, and once in that
\* loop iteration.
C4_AskingBeforeRetry ==
    \A c \in Callers :
        LET tr == trace[c] IN
        \A i \in 1..Len(tr) :
            (/\ tr[i].op = "cmd" /\ tr[i].sig = "ASK" /\ tr[i].to # None
             /\ (tr[i].via = "pick" \/ tr[i].att + 1 < max_redirects[c]))
            => /\ IF i = Len(tr)
                  THEN pc[c] = "asking" /\ target[c] = tr[i].to
                  ELSE /\ tr[i+1].op = "ASKING" /\ tr[i+1].node = tr[i].to
                       /\ tr[i+1].att = tr[i].att
               /\ (i + 1 = Len(tr) /\ tr[i+1].sig = "ok")
                    => (pc[c] = "retry" /\ target[c] = tr[i].to)
               /\ (i + 1 < Len(tr))
                    => IF tr[i+1].sig = "ok"
                       THEN /\ tr[i+2].op = "cmd" /\ tr[i+2].node = tr[i].to
                            /\ tr[i+2].att = tr[i].att
                       ELSE tr[i+2].att > tr[i].att
               /\ \A j \in (i+3)..Len(tr) : tr[j].att > tr[i].att

\* C5: a command error (no redirect) answered by a picked node ends the call:
\* the error is raised to the caller, no node is contacted after it, and when
\* it is the answer to the first attempt the call made exactly one contact.
C5_CommandErrorTerminal ==
    \A c \in Callers :
        LET tr == trace[c] IN
        \A i \in 1..Len(tr) :
            (tr[i].op = "cmd" /\ tr[i].via = "pick" /\ tr[i].sig = "CMDERR")
            => /\ i = Len(tr)
               /\ pc[c] = "done"
               /\ reply[c].err \in CommandErrors
               /\ outcome[c] = Raised(reply[c].err)
               /\ (tr[i].att = 0 => Len(tr) = 1)

C5_Witness ==
    \E c \in Callers :
        /\ Len(trace[c]) = 1
        /\ trace[c][1].sig = "CMDERR"
        /\ max_redirects[c] > 1
        /\ outcome[c].kind = "raise"

\* C6: a contact is followed by another contact of the same call only if it
\* was answered by a transport failure or a redirect (or was an accepted
\* ASKING, which is part of following a redirect).
C6_RetryCauses ==
    \A c \in Callers :
        LET tr == trace[c] IN
        \A i \in 1..(Len(tr) - 1) :
            \/ tr[i].sig \in {"TRANSPORT", "MOVED", "ASK", "HEUR"}
            \/ tr[i].op = "ASKING" /\ tr[i].sig = "ok"

\* C7: when a picked node answers the command with a reply, the call returns
\* that reply unchanged, contacts no node after it, and when it is the answer
\* to the first attempt the call made exactly one contact.
C7_SuccessOneContact ==
    \A c \in Callers :
        LET tr == trace[c] IN
        \A i \in 1..Len(tr) :
            (tr[i].op = "cmd" /\ tr[i].via = "pick" /\ tr[i].sig = "ok")
            => /\ i = Len(tr)
               /\ pc[c] = "done"
               /\ reply[c].ok
               /\ outcome[c] = Returned(reply[c].val)
               /\ (tr[i].att = 0 => Len(tr) = 1)

C7_Witness ==
    \E c \in Callers :
        /\ Len(trace[c]) = 1
        /\ trace[c][1].sig = "ok"
        /\ outcome[c] = Returned("v2")

\* C8: after a MOVED (explicit or unlabeled) with a resolvable target, from a
\* picked node or from a node reached through a redirect, the next command
\* attempt of the call goes to the node the redirect names.
C8_FollowsLatestRedirect ==
    \A c \in Callers :
        LET tr == trace[c] IN
        \A i \in CmdAttempts(tr) : \A j \in CmdAttempts(tr) :
            (/\ i < j
             /\ tr[i].sig \in {"MOVED", "HEUR"} /\ tr[i].to # None
             /\ \A k \in CmdAttempts(tr) : ~(i < k /\ k < j))
            => tr[j].node = tr[i].to

\* a call is inside a redirect hop, or inside the re-attempt that follows a
\* failed redirect (a redirect that could not be resolved or whose target
\* failed)
InHopOrReattempt(c) ==
    \/ pc[c] \in {"asking", "retry"}
    \/ /\ attempt[c] > 0
       /\ pc[c] \in {"pick", "incr_load", "incr_store"}
       /\ Len(trace[c]) > 0
       /\ \/ Last(trace[c]).via = "redirect"
          \/ Last(trace[c]).sig \in {"MOVED", "ASK", "HEUR"}

\* C9: with several callers on one client, a step of one call inside a
\* redirect hop or inside the re-attempt after a failed redirect does not
\* change the node that another caller, about to pick, selects.
C9_HopsKeepSelection ==
    [][\A c \in Callers : \A d \in Callers :
          (/\ c # d
           /\ pc[d] = "pick" /\ pc'[d] = "pick"
           /\ pc'[c] # pc[c]
           /\ InHopOrReattempt(c))
          => PickedClient(clients', current_client_index')
                = PickedClient(clients, current_client_index)]_vars

\* C10: with another node connected, a transport failure of the picked node A
\* makes A ineligible for pick(); the call's next contact is a picked node
\* other than A, and if that node answers with a reply the call returns it.
C10_TransportFallback ==
    \A c \in Callers :
        LET tr == trace[c] IN
        \A i \in 1..Len(tr) :
            (Len(clients) >= 2 /\ tr[i].via = "pick" /\ tr[i].sig = "TRANSPORT")
            => /\ PickedClient(clients, current_client_index) # tr[i].node
               /\ (i < Len(tr))
                    => /\ tr[i+1].via = "pick"
                       /\ tr[i+1].node # tr[i].node
                       /\ (tr[i+1].sig = "ok"
                             => outcome[c] = Returned(reply[c].val))

\* line 128: the loop iterations a call has not used up; following a redirect
\* is possible only inside one of them
HopsAvailable(m, a) == m - a

\* C11: a transport failure of a node contact does not use up a redirect hop:
\* the call has as many hops available after the failure as before it.
C11_TransportKeepsHops ==
    [][\A c \in Callers :
          (/\ pc[c] \in {"send", "asking", "retry"}
           /\ pc'[c] # pc[c]
           /\ Signal(reply'[c]) = "TRANSPORT")
          => HopsAvailable(max_redirects'[c], attempt'[c])
                = HopsAvailable(max_redirects[c], attempt[c])]_vars

\* C12: on a client whose three nodes all connected, when the first picked
\* node answers MOVED to a connected node and that node accepts the command
\* in the same loop iteration, the call returns the node's reply, and the
\* connected handles are still the three the constructor connected.
C12_MovedLeavesRegistry ==
    \A c \in Callers :
        LET tr == trace[c] IN
        (/\ ctor.up = NodeNames
         /\ Len(tr) >= 2
         /\ tr[1].sig = "MOVED" /\ tr[1].to # None
         /\ Last(tr).op = "cmd" /\ Last(tr).via = "redirect"
         /\ Last(tr).att = 0 /\ Last(tr).node = tr[1].to
         /\ Last(tr).sig = "ok")
        => /\ pc[c] = "done"
           /\ outcome[c].kind = "return"
           /\ outcome[c].val = reply[c].val
           /\ clients = NodeOrder
           /\ Connected(clients) = ctor.up

C12_Witness ==
    \E c \in Callers :
        /\ ctor.up = NodeNames
        /\ Len(trace[c]) >= 2
        /\ trace[c][1].node = "node1" /\ trace[c][1].sig = "MOVED"
        /\ trace[c][1].to = "node2"
        /\ Last(trace[c]).node = "node2" /\ Last(trace[c]).op = "cmd"
        /\ Last(trace[c]).sig = "ok"
        /\ outcome[c] = Returned("v1")

(* ------------------------- SimpleClusterClient ------------------------ *)
(* redis-cluster-demo/src/simple_client.py: the same node table and the   *)
(* same connection loop; a command goes to the first connected node and    *)
(* one MOVED is handled by _handle_redirect.                               *)

\* _get_initial_client: list(self.clients.values())[0]
InitialClient(cl) == cl[1]

\* "MOVED" in str(e)
MentionsMoved(msg) ==
    \E i \in 1..Len(msg) : msg[i].t = "word" /\ msg[i].s = "MOVED"

\* 'redis-node-N' in target_node_info
TokenContains(tok, name) == tok.t = "addr" /\ tok.s = name

\* the if / elif chain of _handle_redirect, lines 110-118
NamedNodes ==
    <<[alias |-> "redis-node-1", node |-> "node1"],
      [alias |-> "redis-node-2", node |-> "node2"],
      [alias |-> "redis-node-3", node |-> "node3"]>>

\* lines 105-118: the node whose name parts[1] holds, None when there is none
HandleRedirectTarget(msg) ==
    IF Len(msg) >= 2
          /\ \E k \in 1..Len(NamedNodes) : TokenContains(msg[2], NamedNodes[k].alias)
    THEN LET k == CHOOSE j \in 1..Len(NamedNodes) :
                      /\ TokenContains(msg[2], NamedNodes[j].alias)
                      /\ \A h \in 1..(j-1) : ~TokenContains(msg[2], NamedNodes[h].alias)
         IN NamedNodes[k].node
    ELSE None

\* self.clients['nodeN'] of a node that is not connected
KeyError(n) == Error("KeyError", <<Word(n)>>)

\* line 126: raise ConnectionError(f"...{error_message}...{e}"), the builtin
RedirectFailed_Inner(msg, inner) == inner

RedirectFailed(msg, inner) ==
    Error("builtins.ConnectionError", <<Word("redirect-failed")>> \o msg \o inner.msg)

SimpleContact(n, via, r) == [node |-> n, via |-> via, reply |-> r]

\* a caller invokes set(key, value)
SimpleSet ==
    /\ simple.pc \in {"idle", "done"}
    /\ simple' = [NoSimple EXCEPT !.pc = "send"]
    /\ UNCHANGED <<clients, current_client_index, pc, max_redirects, attempt,
                   client, loaded, err, target, reply, outcome, trace, picks,
                   ctor, batch, official, locking>>

\* lines 143-154: operation(initial_client), and the except clause up to the
\* next node contact
SimpleSend(r) ==
    /\ simple.pc = "send"
    /\ LET n == InitialClient(clients)
           tr == Append(simple.trace, SimpleContact(n, "initial", r))
           t == HandleRedirectTarget(r.err.msg)
       IN simple' =
           IF r.ok
           THEN [simple EXCEPT !.pc = "done", !.trace = tr,
                               !.outcome = Returned(r.val)]
           ELSE IF IsInstance(r.err, "ResponseError") /\ MentionsMoved(r.err.msg)
           THEN IF t = None
                THEN [simple EXCEPT !.pc = "resend", !.trace = tr,
                                    !.msg = r.err.msg, !.target = n]
                ELSE IF t \in Connected(clients)
                THEN [simple EXCEPT !.pc = "resend", !.trace = tr,
                                    !.msg = r.err.msg, !.target = t]
                ELSE [simple EXCEPT !.pc = "done", !.trace = tr,
                                    !.msg = r.err.msg,
                                    !.outcome = Raised(RedirectFailed(r.err.msg, KeyError(t)))]
           ELSE [simple EXCEPT !.pc = "done", !.trace = tr,
                               !.outcome = Raised(r.err)]
    /\ UNCHANGED <<clients, current_client_index, pc, max_redirects, attempt,
                   client, loaded, err, target, reply, outcome, trace, picks,
                   ctor, batch, official, locking>>

\* lines 112-122: operation_func on the node _handle_redirect chose
SimpleResend(r) ==
    /\ simple.pc = "resend"
    /\ LET tr == Append(simple.trace, SimpleContact(simple.target, "redirect", r))
       IN simple' =
           [simple EXCEPT
               !.pc = "done", !.trace = tr,
               !.outcome = IF r.ok THEN Returned(r.val)
                           ELSE IF CaughtByExcept(r.err)
                           THEN Raised(RedirectFailed(simple.msg, r.err))
                           ELSE Raised(r.err)]
    /\ UNCHANGED <<clients, current_client_index, pc, max_redirects, attempt,
                   client, loaded, err, target, reply, outcome, trace, picks,
                   ctor, batch, official, locking>>

\* a server error text "MOVED <slot> <name>:<port>"
MovedText(a) == <<Word("MOVED")>> \o RedirectText(a)

\* what a node may answer to a SimpleClusterClient: a reply, a ResponseError
\* whose text is a MOVED line, one whose second word is the address, the
\* library's MovedError, a command error, a transport failure, an interrupt
SimpleReplies ==
    {Ok(v) : v \in Values}
        \cup {Fail(Error("ResponseError", MovedText(a))) :
                 a \in {"redis-node-1", "redis-node-2", "redis-node-3", "redis-node-9"}}
        \cup {Fail(Error("ResponseError", <<Word("MOVED"), Addr("redis-node-2", 6379)>>)),
              Fail(Error("MovedError", RedirectText("redis-node-2")))}
        \cup {Fail(e) : e \in CommandErrors \cup TransportErrors \cup Interrupts}

\* the state after SimpleClusterClient() returned
InitSimple ==
    /\ clients \in ConnectOutcomes
    /\ ctor = [Constructed(clients) EXCEPT !.cls = "SimpleClusterClient"]
    /\ simple = NoSimple
    /\ current_client_index = 0
    /\ pc = [c \in Callers |-> "idle"]
    /\ max_redirects = [c \in Callers |-> 0]
    /\ attempt = [c \in Callers |-> 0]
    /\ client = [c \in Callers |-> None]
    /\ loaded = [c \in Callers |-> 0]
    /\ err = [c \in Callers |-> NoError]
    /\ target = [c \in Callers |-> None]
    /\ reply = [c \in Callers |-> NoReply]
    /\ outcome = [c \in Callers |-> NoOutcome]
    /\ trace = [c \in Callers |-> <<>>]
    /\ picks = <<>>
    /\ batch = NoBatch
    /\ official = NoOfficial
    /\ locking = NoLocking

NextSimple ==
    \/ SimpleSet
    \/ \E r \in SimpleReplies : SimpleSend(r)
    \/ \E r \in SimpleReplies : SimpleResend(r)

SpecSimple == InitSimple /\ [][NextSimple]_vars

(* ----------------------------- construction --------------------------- *)
(* __init__ and _connect_nodes of RedirectClusterClient; __init__ and      *)
(* _connect_to_all_nodes of SimpleClusterClient run the same statements    *)
(* and differ in the exception raised when no node connected.              *)

Classes == {"RedirectClusterClient", "SimpleClusterClient"}

\* client.ping() of a node: it succeeds on the nodes that accept connections
PingOk(up, n) == n \in up

\* line 70: if not self.clients
NoClients_Never(cl) == FALSE

NoClients(cl) == cl = <<>>

\* line 71 / simple_client.py line 75: the exception of a failed construction
NoNodeError(cls) ==
    IF cls = "RedirectClusterClient"
    THEN Error("Exception", <<Word("no-node")>>)
    ELSE Error("builtins.ConnectionError", <<Word("no-node")>>)

\* lines 53-68: one iteration of the loop over self.nodes; a failed
\* connection is printed and the loop goes on
ConnectNode ==
    /\ ctor.pc = "connecting"
    /\ ctor.i < Len(NodeOrder)
    /\ clients' = IF PingOk(ctor.up, NodeOrder[ctor.i + 1])
                  THEN Append(clients, NodeOrder[ctor.i + 1])
                  ELSE clients
    /\ ctor' = [ctor EXCEPT !.i = @ + 1]
    /\ UNCHANGED <<current_client_index, pc, max_redirects, attempt, client,
                   loaded, err, target, reply, outcome, trace, picks, batch,
                   simple, official, locking>>

\* lines 70-73, and line 47 when _connect_nodes returned
ConnectEnd ==
    /\ ctor.pc = "connecting"
    /\ ctor.i = Len(NodeOrder)
    /\ ctor' = IF NoClients(clients)
               THEN [ctor EXCEPT !.pc = "failed", !.err = NoNodeError(ctor.cls)]
               ELSE [ctor EXCEPT !.pc = "ready"]
    /\ current_client_index' = 0
    /\ UNCHANGED <<clients, pc, max_redirects, attempt, client, loaded, err,
                   target, reply, outcome, trace, picks, batch, simple, official,
                   locking>>

\* the constructor is entered: self.clients = {}, and the environment decides
\* which nodes accept connections
InitConnect ==
    /\ clients = <<>>
    /\ \E cls \in Classes : \E up \in SUBSET NodeNames :
          ctor = [cls |-> cls, pc |-> "connecting", i |-> 0, up |-> up,
                  err |-> NoError]
    /\ simple = NoSimple
    /\ current_client_index = 0
    /\ pc = [c \in Callers |-> "idle"]
    /\ max_redirects = [c \in Callers |-> 0]
    /\ attempt = [c \in Callers |-> 0]
    /\ client = [c \in Callers |-> None]
    /\ loaded = [c \in Callers |-> 0]
    /\ err = [c \in Callers |-> NoError]
    /\ target = [c \in Callers |-> None]
    /\ reply = [c \in Callers |-> NoReply]
    /\ outcome = [c \in Callers |-> NoOutcome]
    /\ trace = [c \in Callers |-> <<>>]
    /\ picks = <<>>
    /\ batch = NoBatch
    /\ official = NoOfficial
    /\ locking = NoLocking

\* the operations of a constructed client
IsReady(cls) == ctor.pc = "ready" /\ ctor.cls = cls

NextConnect ==
    \/ ConnectNode
    \/ ConnectEnd
    \/ IsReady("RedirectClusterClient") /\ Next
    \/ IsReady("SimpleClusterClient") /\ NextSimple

SpecConnect == InitConnect /\ [][NextConnect]_vars

\* C13: the constructor succeeds exactly when some configured node accepts
\* the connection, a node that fails does not stop it (it fails only after
\* every node was tried and none answered), and from then on, whatever
\* operations run, the connected handles are non-empty and are nodes that
\* answered the ping.
C13_RegistryNonEmpty ==
    /\ ctor.pc # "connecting" => (ctor.pc = "ready" <=> ctor.up # {})
    /\ ctor.pc = "failed" => (ctor.i = Len(NodeOrder) /\ ctor.up = {})
    /\ ctor.pc = "ready" =>
          /\ clients # <<>>
          /\ Connected(clients) \subseteq ctor.up
          /\ ctor.up \subseteq Connected(clients)

C13_Witness ==
    /\ ctor.pc = "ready"
    /\ ctor.up = {"node2", "node3"}
    /\ clients = <<"node2", "node3">>
    /\ \/ pc["c1"] = "done" /\ Len(trace["c1"]) >= 2
       \/ simple.pc = "done" /\ Len(simple.trace) >= 2

\* C14: with one caller, the k-th pick of the client's lifetime (k from 0)
\* is the node at position k mod n of the connection order, so any n picks
\* in a row are the n connected nodes, each once.
C14_RoundRobin ==
    LET n == Len(clients) IN
    /\ \A k \in 1..Len(picks) : picks[k] = clients[((k - 1) % n) + 1]
    /\ \A j \in 1..Len(picks) :
          (j + n - 1 <= Len(picks))
          => /\ {picks[h] : h \in j..(j + n - 1)} = Connected(clients)
             /\ Cardinality({picks[h] : h \in j..(j + n - 1)}) = n

C14_Witness ==
    /\ clients = NodeOrder
    /\ Len(picks) >= 4
    /\ picks[4] = "node1"
    /\ current_client_index = 4

(* --------------------- two calls, one after the other ------------------ *)

\* node answers for comparing an unlabeled redirect with an explicit MOVED
PairCmdReplies ==
    {Ok("v1"), Fail(Error("ConnectionError", <<Word("refused")>>))}
        \cup {Fail(Error("MovedError", RedirectText(a))) :
                 a \in {"redis-node-3", "redis-node-9"}}
        \cup {Fail(Error("ResponseError", MovedText(a))) :
                 a \in {"redis-node-3", "redis-node-9"}}

\* a caller makes its one call while no other call is running
BeginAlone(c, m) ==
    /\ \A d \in Callers \ {c} : pc[d] \in {"idle", "done"}
    /\ BeginOnce(c, m)

NextPair ==
    \E c \in Callers :
        \/ \E m \in ConcBudgets : BeginAlone(c, m)
        \/ PickRead(c)
        \/ IncrLoad(c)
        \/ IncrStore(c)
        \/ \E r \in PairCmdReplies : Send(c, r)
        \/ \E r \in AskingReplies : Asking(c, r)
        \/ \E r \in PairCmdReplies : Retry(c, r)

SpecPair == Init /\ [][NextPair]_vars

\* an unlabeled redirect counts as a MOVED
AsMoved(sig) == IF sig = "HEUR" THEN "MOVED" ELSE sig

\* the nodes answer the two calls alike: the same operation on the same node
\* gets the same kind of answer, naming the same target
SameResponses(tc, td) ==
    \A i \in 1..Len(tc) : \A j \in 1..Len(td) :
        (tc[i].node = td[j].node /\ tc[i].op = td[j].op)
        => /\ AsMoved(tc[i].sig) = AsMoved(td[j].sig)
           /\ tc[i].to = td[j].to

\* the node contacts of a call: which node, which operation
Contacts(tr) == [i \in 1..Len(tr) |-> <<tr[i].node, tr[i].op>>]

\* C15: of two finished calls with the same budget whose first contact is
\* the same node, answered by an unlabeled redirect in one call and by an
\* explicit MOVED in the other, both naming the same other connected node,
\* the nodes answering alike, both make the same node contacts and both end
\* the same way.
C15_HeuristicLikeMoved ==
    \A c \in Callers : \A d \in Callers :
        (/\ pc[c] = "done" /\ pc[d] = "done"
         /\ max_redirects[c] = max_redirects[d]
         /\ Len(trace[c]) >= 1 /\ Len(trace[d]) >= 1
         /\ trace[c][1].node = trace[d][1].node
         /\ trace[c][1].sig = "HEUR" /\ trace[d][1].sig = "MOVED"
         /\ trace[c][1].to \notin {None, trace[c][1].node}
         /\ SameResponses(trace[c], trace[d]))
        => /\ Contacts(trace[c]) = Contacts(trace[d])
           /\ outcome[c].kind = outcome[d].kind
           /\ outcome[c].val = outcome[d].val

\* the attempts of a call: its contacts of picked nodes
PickedAttempts(tr) == Cardinality({i \in 1..Len(tr) : tr[i].via = "pick"})

\* C16: under every interleaving of the callers, the loop counter of a call
\* counts the call's own attempts and nothing else, a call never makes more
\* attempts than its own max_redirects, and a call that ended before its
\* budget was used up ended on the answer to its own last contact.
C16_OwnBudget ==
    \A c \in Callers :
        LET tr == trace[c]
            made == PickedAttempts(tr)
        IN /\ made <= max_redirects[c]
           /\ pc[c] \in {"pick", "incr_load", "incr_store", "send"}
                => made = attempt[c]
           /\ pc[c] \in {"asking", "retry"} => made = attempt[c] + 1
           /\ (pc[c] = "done" /\ Len(tr) > 0) => made = attempt[c] + 1
           /\ (pc[c] = "done" /\ made < max_redirects[c])
                => \/ Last(tr).sig = "ok" /\ outcome[c] = Returned(reply[c].val)
                   \/ /\ Last(tr).sig # "ok"
                      /\ outcome[c].kind = "raise"
                      /\ outcome[c].err \in {reply[c].err, err[c]}

C16_Witness ==
    \E c \in Callers : \E d \in Callers :
        /\ c # d
        /\ max_redirects[c] = 2 /\ max_redirects[d] = 1
        /\ attempt[c] = 1 /\ pc[c] = "send" /\ Len(trace[c]) >= 1
        /\ attempt[d] = 0 /\ pc[d] = "retry"

(* ------------------------------ set_many ------------------------------ *)

\* line 120: the default of max_redirects, which set() relies on
DefaultMaxRedirects == 5

\* str(value) of the values of the input mapping
StrOf(v) == IF v = 1 THEN "1" ELSE IF v = 2 THEN "2" ELSE "0"

\* the entries of data_dict, in the order of the mapping
Item(k, v) == [key |-> k, value |-> v]

BatchInputs ==
    {<<>>, <<Item("k1", 1)>>, <<Item("k1", 1), Item("k2", 2)>>,
     <<Item("k2", 2), Item("k1", 1)>>}

\* what a node may answer to a set of the batch
BatchCmdReplies ==
    {Ok("OK"),
     Fail(Error("ResponseError", <<Word("WRONGTYPE")>>)),
     Fail(Error("ConnectionError", <<Word("refused")>>)),
     Fail(Error("MovedError", RedirectText("redis-node-2")))}

\* a caller invokes set_many(data_dict)
SetMany(d) ==
    /\ batch.pc = "idle"
    /\ batch' = [NoBatch EXCEPT !.pc = "loop", !.keys = d]
    /\ UNCHANGED <<clients, current_client_index, pc, max_redirects, attempt,
                   client, loaded, err, target, reply, outcome, trace, picks,
                   ctor, simple, official, locking>>

\* lines 324-326: the loop takes its next entry and calls
\* self.set(key, str(value))
BatchSet ==
    /\ batch.pc = "loop"
    /\ batch.i < Len(batch.keys)
    /\ batch' = [batch EXCEPT
            !.pc = "call", !.i = @ + 1,
            !.calls = Append(@, [key |-> batch.keys[batch.i + 1].key,
                                 value |-> StrOf(batch.keys[batch.i + 1].value)])]
    /\ UNCHANGED <<clients, current_client_index, pc, max_redirects, attempt,
                   client, loaded, err, target, reply, outcome, trace, picks,
                   ctor, simple, official, locking>>

\* lines 196-204: set() runs _execute_command(command) with the default budget
BatchCall(c) ==
    /\ batch.pc = "call"
    /\ BeginOnce(c, DefaultMaxRedirects)

\* lines 326-329: set() returned or raised; the outcome is printed, the
\* exception is dropped and the loop goes on
BatchCollect(c) ==
    /\ batch.pc = "call"
    /\ pc[c] = "done"
    /\ batch' = [batch EXCEPT
            !.pc = "loop",
            !.printed = Append(@, [key |-> batch.keys[batch.i].key,
                                   ok |-> outcome[c].kind = "return",
                                   err |-> outcome[c].err])]
    /\ pc' = [pc EXCEPT ![c] = "idle"]
    /\ UNCHANGED <<clients, current_client_index, max_redirects, attempt,
                   client, loaded, err, target, reply, outcome, trace, picks,
                   ctor, simple, official, locking>>

\* line 329: the loop is exhausted; set_many has no return statement
BatchEnd ==
    /\ batch.pc = "loop"
    /\ batch.i = Len(batch.keys)
    /\ batch' = [batch EXCEPT !.pc = "done", !.ret = None]
    /\ UNCHANGED <<clients, current_client_index, pc, max_redirects, attempt,
                   client, loaded, err, target, reply, outcome, trace, picks,
                   ctor, simple, official, locking>>

NextBatch ==
    \/ \E d \in BatchInputs : SetMany(d)
    \/ BatchSet
    \/ BatchCall("c1")
    \/ PickRead("c1")
    \/ IncrLoad("c1")
    \/ IncrStore("c1")
    \/ \E r \in BatchCmdReplies : Send("c1", r)
    \/ \E r \in AskingReplies : Asking("c1", r)
    \/ \E r \in BatchCmdReplies : Retry("c1", r)
    \/ BatchCollect("c1")
    \/ BatchEnd

SpecBatch == Init /\ [][NextBatch]_vars

\* C17: when set_many has ended it has issued one set per entry, in the order
\* of the mapping and with the entry's key and value, also after a failed set,
\* and it hands the caller a per-key outcome.
C17_BatchCollects ==
    batch.pc = "done"
    => /\ Len(batch.calls) = Len(batch.keys)
       /\ \A i \in 1..Len(batch.keys) :
             batch.calls[i] = [key |-> batch.keys[i].key,
                               value |-> StrOf(batch.keys[i].value)]
       /\ Len(batch.keys) > 0 => batch.ret # None

(* ----------------------------- cancellation --------------------------- *)

\* node answers when the caller may interrupt a contact
CancelCmdReplies ==
    {Ok("v1"),
     Fail(Error("ConnectionError", <<Word("refused")>>)),
     Fail(Error("MovedError", RedirectText("redis-node-2"))),
     Fail(Error("AskError", RedirectText("redis-node-2"))),
     Fail(Error("ResponseError", MovedText("redis-node-3")))}
        \cup {Fail(e) : e \in Interrupts}

CancelAskingReplies == AskingReplies \cup {Fail(e) : e \in Interrupts}

NextCancel ==
    \/ \E m \in 1..MaxRedirects : Begin("c1", m)
    \/ PickRead("c1")
    \/ IncrLoad("c1")
    \/ IncrStore("c1")
    \/ \E r \in CancelCmdReplies : Send("c1", r)
    \/ \E r \in CancelAskingReplies : Asking("c1", r)
    \/ \E r \in CancelCmdReplies : Retry("c1", r)

SpecCancel == Init /\ [][NextCancel]_vars

\* the handles _connect_nodes stored for the nodes that answered, in order
RegistryOf(up) == SelectSeq(NodeOrder, LAMBDA n : n \in up)

\* C18: an interrupt that arrives during a node contact ends the call there:
\* the contact is the call's last, the interrupt itself reaches the caller,
\* and the connected handles are still those the constructor stored.
C18_CancelAborts ==
    \A c \in Callers :
        LET tr == trace[c] IN
        \A i \in 1..Len(tr) :
            tr[i].sig = "CANCEL"
            => /\ i = Len(tr)
               /\ pc[c] = "done"
               /\ reply[c].err \in Interrupts
               /\ outcome[c] = Raised(reply[c].err)
               /\ clients = RegistryOf(ctor.up)

C18_Witness ==
    \E c \in Callers :
        /\ Len(trace[c]) >= 2
        /\ Last(trace[c]).sig = "CANCEL"
        /\ Last(trace[c]).via = "redirect"
        /\ attempt[c] + 1 < max_redirects[c]
        /\ pc[c] = "done"

\* an error text of the form "MOVED <slot> <name>:<port>"
IsMovedLine(msg) ==
    /\ Len(msg) = 3
    /\ msg[1] = Word("MOVED")
    /\ msg[2].t = "int"
    /\ msg[3].t = "addr"

\* the nodes the three names stand for
NamedAliases == {NamedNodes[k].alias : k \in 1..Len(NamedNodes)}

NodeOfAlias(a) == (CHOOSE k \in 1..Len(NamedNodes) : NamedNodes[k].alias = a)

\* C19: when the first node of a SimpleClusterClient fails the operation with
\* "MOVED <slot> <name>:<port>", <name> one of the three node names and that
\* node connected, the operation is executed again on the client of the named
\* node.
C19_SimpleFollowsMoved ==
    LET tr == simple.trace IN
    (/\ Len(tr) >= 1
     /\ ~tr[1].reply.ok
     /\ tr[1].reply.err.cls = "ResponseError"
     /\ IsMovedLine(tr[1].reply.err.msg)
     /\ tr[1].reply.err.msg[3].s \in NamedAliases
     /\ NamedNodes[NodeOfAlias(tr[1].reply.err.msg[3].s)].node \in Connected(clients))
    => LET named == NamedNodes[NodeOfAlias(tr[1].reply.err.msg[3].s)].node IN
       /\ simple.pc = "resend" \/ Len(tr) >= 2
       /\ simple.pc = "resend" => simple.target = named
       /\ Len(tr) >= 2 => tr[2].node = named

(* ----------------------- ClusterAwareRedisClient ---------------------- *)
(* redis-cluster-demo/examples/redis_official_demo.py: the connections are *)
(* kept under "host:port" keys in the order of the constructor's argument; *)
(* execute_with_redirect walks over them.                                  *)

\* nodes = [("localhost", 7001), ("localhost", 7002), ("localhost", 7003)]
OfficialKeys == <<"localhost:7001", "localhost:7002", "localhost:7003">>

\* self.redirect_map and line 90: "redis-node-N:6379" -> f"localhost:{port}"
RedirectMapKey(tok) ==
    IF tok.n # 6379 THEN None
    ELSE CASE tok.s = "redis-node-1" -> "localhost:7001"
           [] tok.s = "redis-node-2" -> "localhost:7002"
           [] tok.s = "redis-node-3" -> "localhost:7003"
           [] OTHER                  -> None

\* line 84: "redis-node-" in part and ":6379" in part
IsNodePart(tok) == tok.t = "addr" /\ tok.n = 6379

\* lines 79-91: the connection key of the redirect target, None when the
\* text names no node, the node is not in redirect_map or is not connected
OfficialTarget(conns, msg) ==
    IF \E i \in 1..Len(msg) : IsNodePart(msg[i])
    THEN LET i == CHOOSE j \in 1..Len(msg) :
                      IsNodePart(msg[j]) /\ \A h \in 1..(j-1) : ~IsNodePart(msg[h])
             key == RedirectMapKey(msg[i])
         IN IF key # None /\ \E k \in 1..Len(conns) : conns[k] = key
            THEN key ELSE None
    ELSE None

\* line 108: raise Exception(f"... {last_error}")
OfficialFailure(e) == Error("Exception", <<Word("failed")>> \o e.msg)

\* the iteration ends with last_error = e: the loop takes the next connection
\* or is exhausted (line 108)
OfficialContinue(o, tr, e) ==
    IF o.i + 1 < Len(o.connections)
    THEN [o EXCEPT !.pc = "loop", !.i = @ + 1, !.trace = tr, !.target = None,
                   !.last_error = e]
    ELSE [o EXCEPT !.pc = "done", !.i = @ + 1, !.trace = tr, !.target = None,
                   !.last_error = e, !.outcome = Raised(OfficialFailure(e))]

OfficialContact(n, via, r) == [node |-> n, via |-> via, reply |-> r]

\* a caller invokes execute_with_redirect(operation, ...)
OfficialExecute ==
    /\ official.pc \in {"idle", "done"}
    /\ official' = [NoOfficial EXCEPT !.pc = "loop",
                                      !.connections = official.connections]
    /\ UNCHANGED <<clients, current_client_index, pc, max_redirects, attempt,
                   client, loaded, err, target, reply, outcome, trace, picks,
                   ctor, batch, simple, locking>>

\* lines 70-91 and 102-105: the command on the connection of the iteration
OfficialSend(r) ==
    /\ official.pc = "loop"
    /\ LET o == official
           n == o.connections[o.i + 1]
           tr == Append(o.trace, OfficialContact(n, "loop", r))
           t == OfficialTarget(o.connections, r.err.msg)
       IN official' =
           IF r.ok
           THEN [o EXCEPT !.pc = "done", !.trace = tr, !.outcome = Returned(r.val)]
           ELSE IF IsInstance(r.err, "ResponseError")
           THEN IF MentionsMoved(r.err.msg) /\ t # None
                THEN [o EXCEPT !.pc = "redirect", !.trace = tr, !.target = t]
                ELSE OfficialContinue(o, tr, r.err)
           ELSE IF CaughtByExcept(r.err)
           THEN OfficialContinue(o, tr, r.err)
           ELSE [o EXCEPT !.pc = "done", !.trace = tr, !.outcome = Raised(r.err)]
    /\ UNCHANGED <<clients, current_client_index, pc, max_redirects, attempt,
                   client, loaded, err, target, reply, outcome, trace, picks,
                   ctor, batch, simple, locking>>

\* lines 92-101: the command on the connection of the redirect target
OfficialRedirect(r) ==
    /\ official.pc = "redirect"
    /\ LET o == official
           tr == Append(o.trace, OfficialContact(o.target, "redirect", r))
       IN official' =
           IF r.ok
           THEN [o EXCEPT !.pc = "done", !.trace = tr, !.outcome = Returned(r.val)]
           ELSE IF CaughtByExcept(r.err)
           THEN OfficialContinue(o, tr, r.err)
           ELSE [o EXCEPT !.pc = "done", !.trace = tr, !.outcome = Raised(r.err)]
    /\ UNCHANGED <<clients, current_client_index, pc, max_redirects, attempt,
                   client, loaded, err, target, reply, outcome, trace, picks,
                   ctor, batch, simple, locking>>

\* what a node may answer
OfficialReplies ==
    {Ok("v1")}
        \cup {Fail(Error("ResponseError", MovedText(a))) : a \in AliasInputs}
        \cup {Fail(Error("MovedError", RedirectText("redis-node-2"))),
              Fail(Error("ResponseError", <<Word("WRONGTYPE")>>)),
              Fail(Error("ConnectionError", <<Word("refused")>>))}
        \cup {Fail(e) : e \in Interrupts}

\* the connections the constructor stored: the nodes that answered, in order
OfficialConnects ==
    {<<OfficialKeys[1], OfficialKeys[2], OfficialKeys[3]>>,
     <<OfficialKeys[1], OfficialKeys[2]>>, <<OfficialKeys[1], OfficialKeys[3]>>,
     <<OfficialKeys[2], OfficialKeys[3]>>, <<OfficialKeys[1]>>,
     <<OfficialKeys[2]>>, <<OfficialKeys[3]>>}

InitOfficial ==
    /\ \E conns \in OfficialConnects :
          official = [NoOfficial EXCEPT !.connections = conns]
    /\ clients = NodeOrder
    /\ ctor = Constructed(clients)
    /\ simple = NoSimple
    /\ batch = NoBatch
    /\ current_client_index = 0
    /\ pc = [c \in Callers |-> "idle"]
    /\ max_redirects = [c \in Callers |-> 0]
    /\ attempt = [c \in Callers |-> 0]
    /\ client = [c \in Callers |-> None]
    /\ loaded = [c \in Callers |-> 0]
    /\ err = [c \in Callers |-> NoError]
    /\ target = [c \in Callers |-> None]
    /\ reply = [c \in Callers |-> NoReply]
    /\ outcome = [c \in Callers |-> NoOutcome]
    /\ trace = [c \in Callers |-> <<>>]
    /\ picks = <<>>
    /\ locking = NoLocking

NextOfficial ==
    \/ OfficialExecute
    \/ \E r \in OfficialReplies : OfficialSend(r)
    \/ \E r \in OfficialReplies : OfficialRedirect(r)

SpecOfficial == InitOfficial /\ [][NextOfficial]_vars

\* no node of the call answered with a redirect to itself
NoSelfRedirect(o) ==
    \A k \in 1..Len(o.trace) :
        o.trace[k].reply.ok
            \/ OfficialTarget(o.connections, o.trace[k].reply.err.msg) # o.trace[k].node

\* C20: within one call of execute_with_redirect (no node redirecting to
\* itself) no connection is sent the command twice, be it as the connection
\* of the iteration or as the target of a MOVED.
C20_EachConnectionOnce ==
    NoSelfRedirect(official)
    => \A i \in 1..Len(official.trace) : \A j \in 1..Len(official.trace) :
          i # j => official.trace[i].node # official.trace[j].node

(* --------------------------- stable topology -------------------------- *)

\* the contacts of a call agree with a topology in which node o owns the key:
\* o accepts what it is sent, every other node answers the command with a
\* MOVED whose target resolves to o
StableFor(tr, o) ==
    \A i \in 1..Len(tr) :
        IF tr[i].node = o
        THEN tr[i].sig = "ok"
        ELSE tr[i].op = "cmd" /\ tr[i].sig \in {"MOVED", "HEUR"} /\ tr[i].to = o

\* C21: with the three nodes connected and a stable owner o, a finished call
\* returned the reply of o and made at most two node contacts, whichever node
\* the round-robin counter selected first.
C21_StableTwoContacts ==
    \A c \in Callers : \A o \in NodeNames :
        (/\ clients = NodeOrder
         /\ pc[c] = "done"
         /\ Len(trace[c]) >= 1
         /\ StableFor(trace[c], o))
        => /\ outcome[c] = Returned(reply[c].val)
           /\ Last(trace[c]).node = o
           /\ Len(trace[c]) <= 2

(* ------------------------------ termination --------------------------- *)

\* node answers, one for each way a contact can end: a reply, a MOVED and an
\* ASK to a resolvable target, a MOVED to an unknown name, an unlabeled
\* redirect, a command error, a transport failure
TermCmdReplies ==
    {Ok("v1"),
     Fail(Error("MovedError", RedirectText("redis-node-2"))),
     Fail(Error("MovedError", RedirectText("redis-node-9"))),
     Fail(Error("AskError", RedirectText("redis-node-2"))),
     Fail(Error("ResponseError", MovedText("redis-node-3"))),
     Fail(Error("ResponseError", <<Word("WRONGTYPE")>>)),
     Fail(Error("ConnectionError", <<Word("refused")>>))}

\* a step of the running call: the thread executes its next statement, and a
\* node contact ends with a reply or an exception (socket_timeout, line 59)
CallStep(c) ==
    \/ PickRead(c)
    \/ IncrLoad(c)
    \/ IncrStore(c)
    \/ \E r \in TermCmdReplies : Send(c, r)
    \/ \E r \in AskingReplies : Asking(c, r)
    \/ \E r \in TermCmdReplies : Retry(c, r)

\* the nodes _get_any_client returned while one caller moved the counter
\* from 0 to idx
PicksBefore(cl, idx) == [k \in 1..idx |-> PickedClient(cl, k - 1)]

\* a constructed client some calls have used: the counter has any value
InitTerm ==
    /\ clients \in ConnectOutcomes
    /\ current_client_index \in 0..(MaxIndex - 1)
    /\ picks = PicksBefore(clients, current_client_index)
    /\ pc = [c \in Callers |-> "idle"]
    /\ max_redirects = [c \in Callers |-> 0]
    /\ attempt = [c \in Callers |-> 0]
    /\ client = [c \in Callers |-> None]
    /\ loaded = [c \in Callers |-> 0]
    /\ err = [c \in Callers |-> NoError]
    /\ target = [c \in Callers |-> None]
    /\ reply = [c \in Callers |-> NoReply]
    /\ outcome = [c \in Callers |-> NoOutcome]
    /\ trace = [c \in Callers |-> <<>>]
    /\ ctor = Constructed(clients)
    /\ batch = NoBatch
    /\ simple = NoSimple
    /\ official = NoOfficial
    /\ locking = NoLocking

NextTerm ==
    \/ \E m \in 0..MaxRedirects : BeginOnce("c1", m)
    \/ CallStep("c1")

\* one call, which the calling thread runs to its end
SpecTerm == InitTerm /\ [][NextTerm]_vars /\ WF_vars(CallStep("c1"))

\* the call is between its entry and its return or raise
Running(c) == pc[c] \notin {"idle", "done"}

\* the command executions of loop iteration a that reached the node chosen
\* in the given way
CmdIn(tr, a, via) ==
    {i \in CmdAttempts(tr) : tr[i].att = a /\ tr[i].via = via}

\* the resources a call has used so far stay within its budget
WithinBudget(c) ==
    LET tr == trace[c] IN
    /\ Running(c) => attempt[c] < max_redirects[c]
    /\ \A i \in 1..Len(tr) : tr[i].att < max_redirects[c]
    /\ PickedAttempts(tr) <= max_redirects[c]
    /\ Cardinality(CmdAttempts(tr)) <= 2 * max_redirects[c]
    /\ \A a \in 0..MaxRedirects :
          /\ Cardinality(CmdIn(tr, a, "pick")) <= 1
          /\ Cardinality(CmdIn(tr, a, "redirect")) <= 1
    /\ pc[c] = "done" => outcome[c].kind \in {"return", "raise"}

\* C22: every call ends, returning or raising, whatever the nodes answer, and
\* until then runs at most max_redirects loop iterations, picks a node at most
\* max_redirects times and executes the command at most 2 * max_redirects
\* times, at most once on the picked node and once on a redirect target in
\* each iteration.
C22_Terminates ==
    /\ [](\A c \in Callers : WithinBudget(c))
    /\ \A c \in Callers : Running(c) ~> pc[c] = "done"

C22_Witness ==
    \E c \in Callers :
        /\ pc[c] = "done"
        /\ max_redirects[c] = 2
        /\ Cardinality(CmdAttempts(trace[c])) = 4
        /\ PickedAttempts(trace[c]) = 2
        /\ outcome[c].kind = "raise"

(* ---------------------------- raised errors --------------------------- *)

\* C23: a call that made a node contact and ended by raising raises the error
\* its last node contact produced; the error of a command retried on a
\* redirect target is not replaced by the redirect error that led to it.
C23_LastErrorRaised ==
    \A c \in Callers :
        (pc[c] = "done" /\ outcome[c].kind = "raise" /\ Len(trace[c]) >= 1)
        => /\ ~reply[c].ok
           /\ outcome[c].err = reply[c].err

(* -------------------------------- ASKING ------------------------------ *)

\* C24: ASKING is sent only after an ASK redirect: the contact before an
\* ASKING is a command answered by ASK, and a command answered by a MOVED,
\* explicit or unlabeled, with a resolvable target is followed directly by
\* the command on that target.
C24_AskingOnlyForAsk ==
    \A c \in Callers :
        LET tr == trace[c] IN
        /\ \A i \in 1..Len(tr) :
              tr[i].op = "ASKING" => (i > 1 /\ tr[i-1].sig = "ASK")
        /\ \A i \in 1..Len(tr) :
              (tr[i].op = "cmd" /\ tr[i].via = "pick"
                 /\ tr[i].sig \in {"MOVED", "HEUR"} /\ tr[i].to # None)
              => (i = Len(tr) \/ (tr[i+1].op = "cmd" /\ tr[i+1].node = tr[i].to))

(* --------------------------- concurrent picks -------------------------- *)

\* the picks that have completed: the counter was stored (line 79) and the
\* node returned (line 80)
CompletedPicks ==
    Len(picks) - Cardinality({c \in Callers : pc[c] \in {"incr_load", "incr_store"}})

\* C25: under every interleaving of the callers, every pick returns a
\* connected node, the picks read the counter values 0, 1, 2, ... each once
\* (the k-th pick returns the node the value k - 1 selects), and once N picks
\* have completed and none is under way the shared counter has advanced by N.
C25_CounterCountsPicks ==
    /\ \A k \in 1..Len(picks) : picks[k] \in Connected(clients)
    /\ \A k \in 1..Len(picks) : picks[k] = PickedClient(clients, k - 1)
    /\ (\A c \in Callers : pc[c] \notin {"incr_load", "incr_store"})
          => current_client_index = CompletedPicks

(* ---------------------------- locking_demo.py ------------------------- *)
(* Each process runs the main loop of locking_demo.py against the master:  *)
(* SET NX PX to take the lock, the critical task, the release script in a  *)
(* finally block.  Time passes in seconds; the key's time to live and the  *)
(* sleeps of the processes run down together, and a process may be late    *)
(* but never early.                                                        *)

\* LOCK_TIMEOUT_MS
LOCK_TIMEOUT_MS == 10000

\* time.sleep(5): the critical task
TaskSeconds == 5

\* time.sleep(3) after the release
ReleaseWaitSeconds == 3

\* time.sleep(1) after a failed acquisition
RetryWaitSeconds == 1

\* px=LOCK_TIMEOUT_MS, in the seconds of the model
LockTtl == LOCK_TIMEOUT_MS \div 1000

Procs == 1..MaxProcs

\* my_random_value = str(uuid.uuid4()): one value per process, all distinct
Uuids == <<"uuid-a", "uuid-b", "uuid-c", "uuid-d">>

my_random_value == [p \in Procs |-> Uuids[p]]

\* socket_timeout=SOCKET_TIMEOUT: the seconds a client waits for a reply
SOCKET_TIMEOUT == 5

\* what becomes of a command the client sends: the master runs it, or the
\* connection fails before (ConnectionError)
Requests == {"run", "refused"}

\* how the wait for the master's reply ends: the reply arrives, or the socket
\* timeout runs out first (TimeoutError)
Replies == {"reply", "timeout"}

\* SET ... NX: the key is written only if it does not exist
NxAllows_Overwrite(key) == TRUE

NxAllows(key) == key = NoKey

\* LUA_RELEASE_LOCK_SCRIPT: redis.call("get", KEYS[1]) == ARGV[1]
ScriptDeletes_Unchecked(key, arg) == key # NoKey

ScriptDeletes(key, arg) == key # NoKey /\ key.val = arg

\* PX: the key is removed once its time to live has run down
Expires_Never(key) == FALSE

Expires(key) == key # NoKey /\ key.ttl <= 1

\* the redirect clients are not part of the demo
LockUnchanged ==
    UNCHANGED <<clients, current_client_index, pc, max_redirects, attempt,
                client, loaded, err, target, reply, outcome, trace, picks,
                ctor, batch, simple, official>>

\* line 35, the command: master.set(LOCK_KEY, my_random_value, nx=True,
\* px=LOCK_TIMEOUT_MS) is sent and the master runs SET NX PX; the client
\* goes on waiting for the reply. A ConnectionError ends the program
\* (lines 54-58)
MasterSet(p, r) ==
    /\ locking.pc[p] = "acquire"
    /\ LET l == locking
           took == NxAllows(l.key)
       IN locking' =
           IF r = "refused"
           THEN [l EXCEPT !.pc[p] = "exited"]
           ELSE [l EXCEPT
                   !.key = IF took
                           THEN [val |-> my_random_value[p], ttl |-> LockTtl]
                           ELSE l.key,
                   !.set_result[p] = IF took THEN "OK" ELSE "nil",
                   !.pc[p] = "set_wait",
                   !.timer[p] = SOCKET_TIMEOUT]
    /\ LockUnchanged

\* line 35, the return: the reply reaches the client before the socket
\* timeout is over and the branch on it is taken (lines 36-52); a
\* TimeoutError ends the program (lines 54-58)
Acquire(p, r) ==
    /\ locking.pc[p] = "set_wait"
    /\ (r = "reply") = (locking.timer[p] > 0)
    /\ LET l == locking
       IN locking' =
           IF r # "reply"
           THEN [l EXCEPT !.pc[p] = "exited", !.set_result[p] = None]
           ELSE IF l.set_result[p] = "OK"
           THEN [l EXCEPT !.pc[p] = "task", !.set_result[p] = None,
                          !.timer[p] = TaskSeconds, !.lost[p] = FALSE]
           ELSE [l EXCEPT !.pc[p] = "backoff", !.set_result[p] = None,
                          !.timer[p] = RetryWaitSeconds]
    /\ LockUnchanged

\* lines 38-41: the sleep of the critical task is over
TaskDone(p) ==
    /\ locking.pc[p] = "task"
    /\ locking.timer[p] = 0
    /\ locking' = [locking EXCEPT !.pc[p] = "release", !.lost[p] = FALSE]
    /\ LockUnchanged

\* a KeyboardInterrupt reaches the process: inside the try block the finally
\* block runs before the exception goes on, elsewhere the program ends
Interrupt(p) ==
    /\ locking.pc[p] # "exited"
    /\ locking' =
          IF locking.pc[p] = "task"
          THEN [locking EXCEPT !.pc[p] = "release", !.raising[p] = TRUE,
                               !.timer[p] = 0, !.lost[p] = FALSE]
          ELSE [locking EXCEPT !.pc[p] = "exited", !.timer[p] = 0,
                               !.raising[p] = FALSE, !.set_result[p] = None]
    /\ LockUnchanged

\* line 45, the command: master.eval(LUA_RELEASE_LOCK_SCRIPT, 1, LOCK_KEY,
\* my_random_value) is sent and the master runs the script; the client goes
\* on waiting for the reply, whose value (1 or 0) line 45 does not use
MasterEval(p, r) ==
    /\ locking.pc[p] = "release"
    /\ LET l == locking
           del == ScriptDeletes(l.key, my_random_value[p])
       IN locking' =
           IF r = "refused"
           THEN [l EXCEPT !.pc[p] = "exited", !.raising[p] = FALSE]
           ELSE [l EXCEPT
                   !.key = IF del THEN NoKey ELSE l.key,
                   !.pc[p] = "eval_wait",
                   !.timer[p] = SOCKET_TIMEOUT]
    /\ LockUnchanged

\* line 45, the return: the reply reaches the client before the socket
\* timeout is over and the wait of line 48 begins; a TimeoutError ends the
\* program
Release(p, r) ==
    /\ locking.pc[p] = "eval_wait"
    /\ (r = "reply") = (locking.timer[p] > 0)
    /\ locking' =
           IF r = "reply"
           THEN [locking EXCEPT !.pc[p] = "released",
                                !.timer[p] = ReleaseWaitSeconds]
           ELSE [locking EXCEPT !.pc[p] = "exited", !.raising[p] = FALSE]
    /\ LockUnchanged

\* line 48: the sleep after the release is over; an exception of the task
\* now leaves the finally block and ends the program
AfterRelease(p) ==
    /\ locking.pc[p] = "released"
    /\ locking.timer[p] = 0
    /\ locking' = [locking EXCEPT
                      !.pc[p] = IF locking.raising[p] THEN "exited" ELSE "acquire",
                      !.raising[p] = FALSE]
    /\ LockUnchanged

\* line 52: the sleep after a failed acquisition is over
Backoff(p) ==
    /\ locking.pc[p] = "backoff"
    /\ locking.timer[p] = 0
    /\ locking' = [locking EXCEPT !.pc[p] = "acquire"]
    /\ LockUnchanged

\* the process holding the key, if it is inside the critical task
HolderInTask(l) ==
    {p \in Procs : l.pc[p] = "task" /\ l.key.val = my_random_value[p]}

\* one second passes: the key's time to live, every sleep and every wait for
\* a reply run down
Tick ==
    /\ locking.key # NoKey \/ \E p \in Procs : locking.timer[p] > 0
    /\ LET l == locking IN
       locking' =
          [l EXCEPT
             !.key = IF l.key = NoKey \/ Expires(l.key) THEN NoKey
                     ELSE IF l.key.ttl <= 1 THEN l.key
                     ELSE [l.key EXCEPT !.ttl = @ - 1],
             !.timer = [p \in Procs |-> IF l.timer[p] > 0 THEN l.timer[p] - 1 ELSE 0],
             !.lost = [p \in Procs |->
                          l.lost[p] \/ (Expires(l.key) /\ p \in HolderInTask(l))]]
    /\ LockUnchanged

\* the processes have been started and are about to try the lock
InitLock ==
    /\ locking = [key |-> NoKey,
                  pc |-> [p \in Procs |-> "acquire"],
                  timer |-> [p \in Procs |-> 0],
                  lost |-> [p \in Procs |-> FALSE],
                  raising |-> [p \in Procs |-> FALSE],
                  set_result |-> [p \in Procs |-> None]]
    /\ clients = NodeOrder
    /\ ctor = Constructed(clients)
    /\ current_client_index = 0
    /\ pc = [c \in Callers |-> "idle"]
    /\ max_redirects = [c \in Callers |-> 0]
    /\ attempt = [c \in Callers |-> 0]
    /\ client = [c \in Callers |-> None]
    /\ loaded = [c \in Callers |-> 0]
    /\ err = [c \in Callers |-> NoError]
    /\ target = [c \in Callers |-> None]
    /\ reply = [c \in Callers |-> NoReply]
    /\ outcome = [c \in Callers |-> NoOutcome]
    /\ trace = [c \in Callers |-> <<>>]
    /\ picks = <<>>
    /\ batch = NoBatch
    /\ simple = NoSimple
    /\ official = NoOfficial

NextLock ==
    \/ \E p \in Procs : \E r \in Requests : MasterSet(p, r)
    \/ \E p \in Procs : \E r \in Replies : Acquire(p, r)
    \/ \E p \in Procs : TaskDone(p)
    \/ \E p \in Procs : Interrupt(p)
    \/ \E p \in Procs : \E r \in Requests : MasterEval(p, r)
    \/ \E p \in Procs : \E r \in Replies : Release(p, r)
    \/ \E p \in Procs : AfterRelease(p)
    \/ \E p \in Procs : Backoff(p)
    \/ Tick

SpecLock == InitLock /\ [][NextLock]_vars

\* C26: a run of the release script removes the lock key only when the key
\* holds the value of the process that runs it; a key that holds the value of
\* another process (the own lock expired and was taken again) stays, with
\* its value and its time to live.
C26_ReleaseOwnLockOnly ==
    [][\A p \in Procs :
          (/\ locking.pc[p] = "release"
           /\ locking'.pc[p] # "release"
           /\ locking.key # NoKey
           /\ locking.key.val # my_random_value[p])
          => locking'.key = locking.key]_vars

C26_Witness ==
    \E p \in Procs : \E q \in Procs :
        /\ p # q
        /\ locking.pc[p] = "eval_wait"
        /\ locking.timer[p] = SOCKET_TIMEOUT
        /\ locking.pc[q] = "task"
        /\ locking.timer[q] < TaskSeconds
        /\ locking.key.val = my_random_value[q]
        /\ locking.key.ttl < LockTtl

\* the processes executing the critical task
InTask == {p \in Procs : locking.pc[p] = "task"}

\* C27: two processes are never in the critical task together unless the key
\* of one of them expired while it was in the task; a process in the task
\* whose key did not expire holds the key; and while the sleep of the task
\* runs the key has not expired: the key has lived for less than the socket
\* timeout when the task begins, and the two together do not exceed the time
\* to live.
C27_MutualExclusion ==
    /\ \A p \in InTask : \A q \in InTask :
          p # q => (locking.lost[p] \/ locking.lost[q])
    /\ \A p \in InTask :
          ~locking.lost[p] => locking.key.val = my_random_value[p]
    /\ (\A p \in InTask : ~locking.lost[p]) => Cardinality(InTask) <= 1
    /\ \A p \in InTask :
          locking.timer[p] > 0
          => /\ ~locking.lost[p]
             /\ locking.key.ttl <= locking.timer[p] + (LockTtl - TaskSeconds)
             /\ locking.key.ttl >
                    locking.timer[p] + (LockTtl - TaskSeconds - SOCKET_TIMEOUT)

C27_Witness ==
    \E p \in Procs : \E q \in Procs :
        /\ p # q
        /\ locking.pc[p] = "task" /\ ~locking.lost[p]
        /\ locking.timer[p] = 0
        /\ locking.pc[q] = "backoff"
        /\ locking.timer[q] = RetryWaitSeconds

\* time passes and the master removes a key whose time to live is over
SpecLockLive == SpecLock /\ WF_vars(Tick)

\* C28: a process leaves the critical task only into the release, also when
\* the task raises, and whenever the lock key exists it is eventually absent
\* again, whether the holder releases it or not.
C28_LockEventuallyFree ==
    /\ [][\A p \in Procs :
            (locking.pc[p] = "task" /\ locking'.pc[p] # "task")
            => locking'.pc[p] = "release"]_vars
    /\ (locking.key # NoKey) ~> (locking.key = NoKey)

C28_Witness ==
    \E p \in Procs :
        /\ locking.pc[p] = "exited"
        /\ locking.key.val = my_random_value[p]
        /\ locking.key.ttl = 1

(* --------------------- SimpleClusterClient: failures ------------------- *)

\* the first node answered with a ResponseError whose text holds "MOVED"
SimpleRedirected(tr) ==
    /\ Len(tr) >= 1
    /\ ~tr[1].reply.ok
    /\ IsInstance(tr[1].reply.err, "ResponseError")
    /\ MentionsMoved(tr[1].reply.err.msg)

\* the exception raised inside _handle_redirect, NoError when there was none:
\* the lookup of a node that is not connected, or the failure of the
\* operation on the chosen node
HandlingError(tr, cl) ==
    IF Len(tr) = 1
    THEN LET t == HandleRedirectTarget(tr[1].reply.err.msg) IN
         IF t # None /\ t \notin Connected(cl) THEN KeyError(t) ELSE NoError
    ELSE IF ~tr[2].reply.ok /\ CaughtByExcept(tr[2].reply.err)
         THEN tr[2].reply.err
         ELSE NoError

\* C29: an operation of SimpleClusterClient contacts the first connected node
\* and then at most one node, chosen by _handle_redirect after a MOVED; when
\* the handling of the redirect fails (the named node has no connection, or
\* the operation fails on the chosen node) the call ends there and raises a
\* ConnectionError whose text holds the text of the redirect.
C29_SimpleRedirectOnce ==
    LET tr == simple.trace IN
    /\ Len(tr) <= 2
    /\ Len(tr) >= 1 => (tr[1].via = "initial" /\ tr[1].node = InitialClient(clients))
    /\ Len(tr) = 2 => (/\ tr[2].via = "redirect"
                       /\ SimpleRedirected(tr)
                       /\ simple.pc = "done")
    /\ (/\ simple.pc # "resend"
        /\ SimpleRedirected(tr)
        /\ HandlingError(tr, clients) # NoError)
       => LET orig == tr[1].reply.err.msg
              e == simple.outcome.err
          IN /\ simple.pc = "done"
             /\ simple.outcome.kind = "raise"
             /\ e.cls = "builtins.ConnectionError"
             /\ Len(e.msg) >= 1 + Len(orig)
             /\ SubSeq(e.msg, 2, 1 + Len(orig)) = orig
             /\ e = RedirectFailed(orig, HandlingError(tr, clients))

C29_Witness ==
    /\ simple.pc = "done"
    /\ Len(simple.trace) = 2
    /\ simple.trace[1].reply.err.msg = MovedText("redis-node-2")
    /\ simple.trace[2].reply = Fail(Error("ConnectionError", <<Word("refused")>>))
    /\ simple.outcome.err.cls = "builtins.ConnectionError"

(* --------------------------- the final raise --------------------------- *)

\* C30: a call with max_redirects >= 1 never ends by the raise after the loop
\* (line 192): it made a node contact and ends inside the loop, returning the
\* reply of its last contact or raising the error of one of its contacts; a
\* call with max_redirects <= 0 contacts no node and ends by that raise.
C30_NoGenericFailure ==
    \A c \in Callers :
        pc[c] = "done"
        => /\ outcome[c].err = GenericFailure
                => (max_redirects[c] <= 0 /\ trace[c] = <<>>)
           /\ max_redirects[c] <= 0
                => (outcome[c] = Raised(GenericFailure) /\ trace[c] = <<>>)
           /\ max_redirects[c] >= 1
                => /\ Len(trace[c]) >= 1
                   /\ attempt[c] < max_redirects[c]
                   /\ \/ reply[c].ok /\ outcome[c] = Returned(reply[c].val)
                      \/ /\ ~reply[c].ok
                         /\ outcome[c].kind = "raise"
                         /\ outcome[c].err \in {reply[c].err, err[c]}
                         /\ outcome[c].err # NoError

C30_Witness ==
    \E c \in Callers :
        /\ pc[c] = "done"
        /\ max_redirects[c] = 2
        /\ attempt[c] = 1
        /\ Len(trace[c]) = 5
        /\ Last(trace[c]).sig = "TRANSPORT"
        /\ outcome[c] = Raised(reply[c].err)

====
